---- MODULE Spec2Model ----
(***************************************************************************)
(* Appointment scheduling service (app/core/services/appointment_service,  *)
(* app/core/utils/helpers, app/data/repositories/appointment_repository).  *)
(*                                                                         *)
(* The appointments table is a sequence of rows in insertion order.  Times *)
(* of day are minutes since midnight, an optional value is <<>> (None) or  *)
(* <<v>>, a booking id "APT-{year}-{n:04d}" is the pair <<year, n>>, and   *)
(* a timestamp is recorded by its presence only.                           *)
(***************************************************************************)
EXTENDS Integers, Sequences, FiniteSets, TLC

VARIABLES
    store,    \* rows of table "appointments", in insertion order
    nextId,   \* next value of the auto-increment primary key "id"
    year,     \* datetime.now().year
    last,     \* the last service call: operation, arguments, outcome
    workers,  \* the create_appointment calls in progress, one per request worker
    deleted_ids, \* history: the booking ids of the rows deleted so far
    sessions  \* the update_appointment_status calls in progress, one session each

vars == <<store, nextId, year, last, workers, deleted_ids, sessions>>

\* what the calls that run from start to end on their own leave alone
aux == <<workers, deleted_ids, sessions>>

\* ------------------------------------------------------------------ bounds
MaxCreates == 2    \* rows ever inserted (caps the auto-increment key)
NumWorkers == 2    \* request workers that run create_appointment side by side
RandMax == 2       \* random.randint(0, 9999) is scaled down to 0..RandMax
MaxSkip == 3       \* skip of GET /api/appointments ranges over 0..MaxSkip
MaxLimit == 2      \* limit of GET /api/appointments ranges over 1..MaxLimit

\* ------------------------------------------------------------- value sets
Statuses == {"SCHEDULED", "COMPLETED", "CANCELLED", "PENDING"}

TimeOf(h, m) == h * 60 + m

None == <<>>
Some(v) == <<v>>
IsSet(o) == o # None

Req(d, p, dt, s, e) ==
    [doctor_id |-> d, patient_id |-> p, appointment_date |-> dt,
     appointment_start_time |-> s, appointment_end_time |-> e]

Patch(d, dt, s, e) ==
    [doctor_id |-> d, patient_id |-> None, appointment_date |-> dt,
     appointment_start_time |-> s, appointment_end_time |-> e]

\* AppointmentCreate payloads of the life-cycle specification
CreateReqs ==
    { Req("DOC-1", "PAT-1", 1, TimeOf(10, 0), TimeOf(10, 30)),
      Req("DOC-1", "PAT-1", 1, TimeOf(10, 15), TimeOf(10, 45)),  \* overlaps the first
      Req("DOC-2", "PAT-1", 1, TimeOf(10, 0), TimeOf(10, 30)),   \* other doctor
      Req("DOC-1", "PAT-1", 1, TimeOf(10, 0), TimeOf(10, 10)) }  \* 10 minutes

\* AppointmentUpdate payloads of the life-cycle specification (None: unset)
UpdatePatches ==
    { Patch(None, None, None, None),
      Patch(Some("DOC-2"), None, None, None),
      Patch(None, None, Some(TimeOf(10, 15)), Some(TimeOf(10, 45))) }

\* booking ids a caller asks for: the stored ones and one more
BookingIds == { store[i].appointment_id : i \in 1 .. Len(store) } \cup { <<year, 0>> }

\* the record of a service call: its arguments (None where the operation has
\* none), the error raised or "ok", the error's message, the value returned
NoArgs == [bid |-> None, req |-> None, patch |-> None, target |-> "None",
           exclude |-> None, more |-> None, query |-> None]

Call(op, args, result, detail, ret) ==
    [op |-> op, args |-> args, result |-> result, detail |-> detail, ret |-> ret]

\* ---------------------------------------------------- app/core/utils/helpers
business_start == TimeOf(9, 0)
business_end == TimeOf(18, 0)

\* mutant: closing time itself is refused
validate_business_hours_strict_end(appointment_date, start_time, end_time) ==
    /\ start_time >= business_start
    /\ end_time < business_end
    /\ start_time < end_time

validate_business_hours(appointment_date, start_time, end_time) ==
    /\ start_time >= business_start
    /\ end_time <= business_end
    /\ start_time < end_time

calculate_appointment_duration(start_time, end_time) == end_time - start_time

min_minutes_default == 15

\* mutant: the minimum itself is refused
validate_minimum_duration_strict(start_time, end_time, min_minutes) ==
    calculate_appointment_duration(start_time, end_time) > min_minutes

validate_minimum_duration(start_time, end_time, min_minutes) ==
    calculate_appointment_duration(start_time, end_time) >= min_minutes

\* mutant: the first disjunct (proposed start inside the stored row) is missing
sql_time_predicate_no_start_inside(rs, re, start_time, end_time) ==
    \/ (rs < end_time /\ re >= end_time)
    \/ (rs >= start_time /\ re <= end_time)

\* mutant: a stored row ending where the proposed interval starts counts
sql_time_predicate_touching(rs, re, start_time, end_time) ==
    \/ (rs <= start_time /\ re >= start_time)
    \/ (rs < end_time /\ re >= end_time)
    \/ (rs >= start_time /\ re <= end_time)

\* the WHERE clause's time predicate; (rs, re) is the stored row's interval
sql_time_predicate(rs, re, start_time, end_time) ==
    \/ (rs <= start_time /\ re > start_time)
    \/ (rs < end_time /\ re >= end_time)
    \/ (rs >= start_time /\ re <= end_time)

\* mutant: the status filter lets every status through
ActiveStatuses_every_status == {"SCHEDULED", "COMPLETED", "CANCELLED", "PENDING"}

ActiveStatuses == {"SCHEDULED", "PENDING"}

conflict_count(rows, doctor_id, appointment_date, start_time, end_time, exclude_appointment_id) ==
    Cardinality({ i \in 1 .. Len(rows) :
        /\ rows[i].doctor_id = doctor_id
        /\ rows[i].appointment_date = appointment_date
        /\ rows[i].status \in ActiveStatuses
        /\ sql_time_predicate(rows[i].appointment_start_time,
                              rows[i].appointment_end_time, start_time, end_time)
        /\ ((IsSet(exclude_appointment_id) /\ exclude_appointment_id[1] # 0)
                => rows[i].id # exclude_appointment_id[1]) })

\* mutant: the row under update is not excluded from the query
validate_appointment_conflict_no_exclude(rows, doctor_id, appointment_date, start_time, end_time, exclude_appointment_id) ==
    conflict_count(rows, doctor_id, appointment_date, start_time, end_time, None) > 0

validate_appointment_conflict(rows, doctor_id, appointment_date, start_time, end_time, exclude_appointment_id) ==
    conflict_count(rows, doctor_id, appointment_date, start_time, end_time,
                   exclude_appointment_id) > 0

\* mutant: the except clause reports a conflict
conflict_on_exception_fails_closed == TRUE

\* the except clause of validate_appointment_conflict: the error is printed
\* and False returned
conflict_on_exception == FALSE

\* the helper as its callers see it; db_error: the query raises
conflict_detector(rows, doctor_id, appointment_date, start_time, end_time, exclude_appointment_id, db_error) ==
    IF db_error THEN conflict_on_exception
    ELSE validate_appointment_conflict(rows, doctor_id, appointment_date,
                                       start_time, end_time, exclude_appointment_id)

generate_appointment_id(rows, current_year) ==
    LET count == Cardinality({ i \in 1 .. Len(rows) :
                                 rows[i].appointment_id[1] = current_year })
        next_number == count + 1
    IN  <<current_year, next_number>>

\* mutant: the timestamp is used as it is
generate_appointment_id_fallback_unreduced(current_year, timestamp) ==
    <<current_year, timestamp>>

\* the except clause of generate_appointment_id: the count query raised and
\* the number is taken from the clock, int(datetime.now().timestamp())
generate_appointment_id_fallback(current_year, timestamp) ==
    LET next_number == timestamp % 10000
    IN  <<current_year, next_number>>

\* str(n) of a natural number, as its sequence of characters
DecimalChars == <<"0", "1", "2", "3", "4", "5", "6", "7", "8", "9">>

RECURSIVE decimal(_)
decimal(n) ==
    IF n < 10 THEN <<DecimalChars[n + 1]>>
    ELSE Append(decimal(n \div 10), DecimalChars[(n % 10) + 1])

\* mutant: the number is cut to its last four digits
format_04d_last_four(n) ==
    LET digits == decimal(n % 10000)
    IN  [k \in 1 .. 4 - Len(digits) |-> "0"] \o digits

\* f"{n:04d}": zero-padded to four characters, longer when n has more digits
format_04d(n) ==
    LET digits == decimal(n)
    IN  IF Len(digits) >= 4 THEN digits
        ELSE [k \in 1 .. 4 - Len(digits) |-> "0"] \o digits

\* f"APT-{current_year}-{next_number:04d}", the text of the booking id
\* <<current_year, next_number>>
appointment_id_text(appointment_id) ==
    <<"A", "P", "T", "-">> \o decimal(appointment_id[1]) \o <<"-">>
        \o format_04d(appointment_id[2])

\* ------------------------------- app/data/repositories/appointment_repository
RowsWith(rows, appointment_id) ==
    { i \in 1 .. Len(rows) : rows[i].appointment_id = appointment_id }

\* .first() of the select: the earliest matching row, None when there is none
get_by_id(rows, appointment_id) ==
    LET hit == RowsWith(rows, appointment_id)
    IN  IF hit = {} THEN None
        ELSE Some(CHOOSE i \in hit : \A j \in hit : i <= j)

\* mutant: the commit stamps updated_at on every row of the table
repository_update_stamps_all(rows, i, appointment) ==
    [k \in 1 .. Len(rows) |->
        [(IF k = i THEN appointment ELSE rows[k]) EXCEPT !.updated_at = Some("utcnow")]]

\* mutant: the commit stamps created_at as well
repository_update_stamps_created(rows, i, appointment) ==
    [rows EXCEPT ![i] = [appointment EXCEPT !.created_at = <<"utcnow", 0>>,
                                            !.updated_at = Some("utcnow")]]

\* mutant: the commit leaves updated_at as it was
repository_update_no_stamp(rows, i, appointment) ==
    [rows EXCEPT ![i] = appointment]

repository_update(rows, i, appointment) ==
    [rows EXCEPT ![i] = [appointment EXCEPT !.updated_at = Some("utcnow")]]

\* the rows a doctor has on a date with an active status, in table order
get_available_slots(rows, doctor_id, appointment_date) ==
    SelectSeq(rows, LAMBDA row :
        /\ row.doctor_id = doctor_id
        /\ row.appointment_date = appointment_date
        /\ row.status \in {"SCHEDULED", "PENDING"})

count_by_status(rows, status) ==
    Cardinality({ i \in 1 .. Len(rows) : rows[i].status = status })

\* mutant: the status filter is left out
count_by_doctor_any_status(rows, doctor_id, status) ==
    Cardinality({ i \in 1 .. Len(rows) : rows[i].doctor_id = doctor_id })

\* status is optional: None counts the doctor's rows of every status
count_by_doctor(rows, doctor_id, status) ==
    Cardinality({ i \in 1 .. Len(rows) :
        /\ rows[i].doctor_id = doctor_id
        /\ IsSet(status) => rows[i].status = status[1] })

count_by_patient(rows, patient_id, status) ==
    Cardinality({ i \in 1 .. Len(rows) :
        /\ rows[i].patient_id = patient_id
        /\ IsSet(status) => rows[i].status = status[1] })

\* mutant: the row is kept and marked cancelled
RemoveAt_soft_delete(rows, i) ==
    [rows EXCEPT ![i].status = "CANCELLED"]

RemoveAt(rows, i) ==
    [k \in 1 .. Len(rows) - 1 |-> IF k < i THEN rows[k] ELSE rows[k + 1]]

\* ------------------------------------ app/core/services/appointment_service
\* mutant: a SCHEDULED row may be set to SCHEDULED again
valid_transitions_same_state ==
    [s \in Statuses |->
        CASE s = "SCHEDULED" -> {"COMPLETED", "CANCELLED", "SCHEDULED"}
          [] s = "PENDING"   -> {"SCHEDULED", "CANCELLED"}
          [] s = "COMPLETED" -> {}
          [] s = "CANCELLED" -> {"SCHEDULED"}]

\* mutant: a CANCELLED row cannot be reopened
valid_transitions_no_reopen ==
    [s \in Statuses |->
        CASE s = "SCHEDULED" -> {"COMPLETED", "CANCELLED"}
          [] s = "PENDING"   -> {"SCHEDULED", "CANCELLED"}
          [] s = "COMPLETED" -> {}
          [] s = "CANCELLED" -> {}]

\* mutant: a COMPLETED row can be rescheduled like a CANCELLED one
valid_transitions_completed_reopens ==
    [s \in Statuses |->
        CASE s = "SCHEDULED" -> {"COMPLETED", "CANCELLED"}
          [] s = "PENDING"   -> {"SCHEDULED", "CANCELLED"}
          [] s = "COMPLETED" -> {"SCHEDULED"}
          [] s = "CANCELLED" -> {"SCHEDULED"}]

\* mutant: a CANCELLED row can be put back to PENDING
valid_transitions_cancelled_to_pending ==
    [s \in Statuses |->
        CASE s = "SCHEDULED" -> {"COMPLETED", "CANCELLED"}
          [] s = "PENDING"   -> {"SCHEDULED", "CANCELLED"}
          [] s = "COMPLETED" -> {}
          [] s = "CANCELLED" -> {"SCHEDULED", "PENDING"}]

valid_transitions ==
    [s \in Statuses |->
        CASE s = "SCHEDULED" -> {"COMPLETED", "CANCELLED"}
          [] s = "PENDING"   -> {"SCHEDULED", "CANCELLED"}
          [] s = "COMPLETED" -> {}
          [] s = "CANCELLED" -> {"SCHEDULED"}]

\* mutant: range(max_retries + 1), one more pass of the loop
max_retries_one_more == 5 + 1

max_retries == 5

\* mutant: the conflict query runs before the duration check
create_checks_conflict_first(rows, req, db_error) ==
    IF ~validate_business_hours(req.appointment_date, req.appointment_start_time,
                                req.appointment_end_time)
    THEN <<"BusinessRuleViolationError", "business_hours">>
    ELSE IF conflict_detector(rows, req.doctor_id, req.appointment_date,
                              req.appointment_start_time,
                              req.appointment_end_time, None, db_error)
    THEN <<"AppointmentConflictError", "conflict">>
    ELSE IF ~validate_minimum_duration(req.appointment_start_time,
                                       req.appointment_end_time, min_minutes_default)
    THEN <<"ValidationError", "min_duration">>
    ELSE <<"ok", "ok">>

\* the checks of create_appointment, in the order the code makes them
create_checks(rows, req, db_error) ==
    IF ~validate_business_hours(req.appointment_date, req.appointment_start_time,
                                req.appointment_end_time)
    THEN <<"BusinessRuleViolationError", "business_hours">>
    ELSE IF ~validate_minimum_duration(req.appointment_start_time,
                                       req.appointment_end_time, min_minutes_default)
    THEN <<"ValidationError", "min_duration">>
    ELSE IF conflict_detector(rows, req.doctor_id, req.appointment_date,
                              req.appointment_start_time,
                              req.appointment_end_time, None, db_error)
    THEN <<"AppointmentConflictError", "conflict">>
    ELSE <<"ok", "ok">>

\* mutant: the table has no unique index on appointment_id
unique_violation_no_index(rows, appointment_id) == FALSE

\* repository.create on a table with the unique index on appointment_id:
\* TRUE when the commit raises IntegrityError for it
unique_violation(rows, appointment_id) == RowsWith(rows, appointment_id) # {}

\* mutant: the table refuses a row that overlaps an active row of its doctor
\* and date
other_integrity_error_exclusion(rows, row) ==
    validate_appointment_conflict(rows, row.doctor_id, row.appointment_date,
        row.appointment_start_time, row.appointment_end_time, None)

\* TRUE when the commit raises IntegrityError for another constraint: the
\* table has none that a row built by create_appointment can break
other_integrity_error(rows, row) == FALSE

\* The insert loop: the ids the row can end up stored under (one per run of
\* the random draws), None standing for "all max_retries inserts collided".
RECURSIVE insert_outcomes(_, _, _, _)
insert_outcomes(rows, current_year, appointment_id, attempt) ==
    IF attempt = max_retries THEN {None}
    ELSE IF ~unique_violation(rows, appointment_id) THEN {Some(appointment_id)}
    ELSE UNION { insert_outcomes(rows, current_year, <<current_year, r>>, attempt + 1) :
                 r \in 0 .. RandMax }

\* mutant: the row is stored as PENDING
NewRow_pending(id, appointment_id, req) ==
    [id |-> id, appointment_id |-> appointment_id,
     doctor_id |-> req.doctor_id, patient_id |-> req.patient_id,
     appointment_date |-> req.appointment_date,
     appointment_start_time |-> req.appointment_start_time,
     appointment_end_time |-> req.appointment_end_time,
     status |-> "PENDING", created_at |-> <<"utcnow", id>>, updated_at |-> None]

NewRow(id, appointment_id, req) ==
    [id |-> id, appointment_id |-> appointment_id,
     doctor_id |-> req.doctor_id, patient_id |-> req.patient_id,
     appointment_date |-> req.appointment_date,
     appointment_start_time |-> req.appointment_start_time,
     appointment_end_time |-> req.appointment_end_time,
     status |-> "SCHEDULED", created_at |-> <<"utcnow", id>>, updated_at |-> None]

\* the storage faults of one request: which of its queries raise, and the
\* clock read by the fallback of the id generator
NoFaults == [conflict_error |-> FALSE, count_error |-> FALSE, timestamp |-> 0]

\* create_appointment; faults.conflict_error: the conflict query raises,
\* faults.count_error: the count query of the id generator raises
CreateFaulty(req, faults) ==
    LET verdict == create_checks(store, req, faults.conflict_error)
        args == [NoArgs EXCEPT !.req = Some(req),
                               !.query = IF faults = NoFaults THEN None
                                         ELSE Some(faults)]
        appointment_id ==
            IF faults.count_error
            THEN generate_appointment_id_fallback(year, faults.timestamp)
            ELSE generate_appointment_id(store, year)
    IN
    IF verdict[1] # "ok"
    THEN /\ last' = Call("create", args, verdict[1], verdict[2], None)
         /\ UNCHANGED <<store, nextId, year>>
    ELSE \E out \in insert_outcomes(store, year, appointment_id, 0) :
         IF out = None
         THEN /\ last' = Call("create", args, "ValidationError", "id_exhausted", None)
              /\ UNCHANGED <<store, nextId, year>>
         ELSE LET row == NewRow(nextId, out[1], req) IN
              /\ nextId <= MaxCreates
              /\ store' = Append(store, row)
              /\ nextId' = nextId + 1
              /\ last' = Call("create", args, "ok", "ok", Some(row))
              /\ UNCHANGED year

\* create_appointment on a storage without faults
Create(req) == CreateFaulty(req, NoFaults)

Get(bid) ==
    LET found == get_by_id(store, bid)
        args == [NoArgs EXCEPT !.bid = Some(bid)]
    IN
    /\ last' = IF found = None
               THEN Call("get", args, "AppointmentNotFoundError", "not_found", None)
               ELSE Call("get", args, "ok", "ok", Some(store[found[1]]))
    /\ UNCHANGED <<store, nextId, year>>

UpdateStatus(bid, target) ==
    LET found == get_by_id(store, bid)
        args == [NoArgs EXCEPT !.bid = Some(bid), !.target = target]
    IN
    IF found = None
    THEN /\ last' = Call("update_status", args, "AppointmentNotFoundError",
                         "not_found", None)
         /\ UNCHANGED <<store, nextId, year>>
    ELSE LET i == found[1]
             appointment == store[i]
         IN  IF /\ appointment.status \in DOMAIN valid_transitions
                /\ target \notin valid_transitions[appointment.status]
             THEN /\ last' = Call("update_status", args, "ValidationError",
                                  "transition", None)
                  /\ UNCHANGED <<store, nextId, year>>
             ELSE LET rows == repository_update(store, i,
                                  [appointment EXCEPT !.status = target])
                  IN  /\ store' = rows
                      /\ last' = Call("update_status", args, "ok", "ok", Some(rows[i]))
                      /\ UNCHANGED <<nextId, year>>

\* setattr for every field of the payload that is set and not None
apply_update(appointment, patch) ==
    [appointment EXCEPT
        !.doctor_id = IF IsSet(patch.doctor_id) THEN patch.doctor_id[1] ELSE @,
        !.patient_id = IF IsSet(patch.patient_id) THEN patch.patient_id[1] ELSE @,
        !.appointment_date =
            IF IsSet(patch.appointment_date) THEN patch.appointment_date[1] ELSE @,
        !.appointment_start_time =
            IF IsSet(patch.appointment_start_time)
            THEN patch.appointment_start_time[1] ELSE @,
        !.appointment_end_time =
            IF IsSet(patch.appointment_end_time)
            THEN patch.appointment_end_time[1] ELSE @]

\* mutant: the conflict query runs for every payload
time_fields_updated_always(patch) == TRUE

\* the guard of the conflict query: a start time, an end time or a date is set
time_fields_updated(patch) ==
    \/ IsSet(patch.appointment_start_time)
    \/ IsSet(patch.appointment_end_time)
    \/ IsSet(patch.appointment_date)

\* mutant: closing the session commits what it holds
get_session_commits_on_close(committed, pending) == pending

\* get_session: one session per request, closed when the request ends; what the
\* request set on its objects (and autoflushed before a query) but did not
\* commit is rolled back, and the table is as it was committed
get_session(committed, pending) == committed

\* update_appointment; conflict_error: the conflict query raises
UpdateFaulty(bid, patch, conflict_error) ==
    LET found == get_by_id(store, bid)
        args == [NoArgs EXCEPT !.bid = Some(bid), !.patch = Some(patch),
                               !.query = IF conflict_error
                                         THEN Some([NoFaults EXCEPT !.conflict_error = TRUE])
                                         ELSE None]
    IN
    IF found = None
    THEN /\ last' = Call("update", args, "AppointmentNotFoundError", "not_found", None)
         /\ UNCHANGED <<store, nextId, year>>
    ELSE LET i == found[1]
             appointment == apply_update(store[i], patch)
         IN  IF /\ time_fields_updated(patch)
                /\ conflict_detector(store, appointment.doctor_id,
                       appointment.appointment_date,
                       appointment.appointment_start_time,
                       appointment.appointment_end_time, Some(appointment.id),
                       conflict_error)
             THEN /\ last' = Call("update", args, "AppointmentConflictError",
                                  "conflict", None)
                  /\ store' = get_session(store, [store EXCEPT ![i] = appointment])
                  /\ UNCHANGED <<nextId, year>>
             ELSE LET rows == repository_update(store, i, appointment)
                  IN  /\ store' = rows
                      /\ last' = Call("update", args, "ok", "ok", Some(rows[i]))
                      /\ UNCHANGED <<nextId, year>>

\* update_appointment on a storage without faults
Update(bid, patch) == UpdateFaulty(bid, patch, FALSE)

Delete(bid) ==
    LET found == get_by_id(store, bid)
        args == [NoArgs EXCEPT !.bid = Some(bid)]
    IN
    IF found = None
    THEN /\ last' = Call("delete", args, "AppointmentNotFoundError", "not_found", None)
         /\ UNCHANGED <<store, nextId, year>>
    ELSE /\ store' = RemoveAt(store, found[1])
         /\ last' = Call("delete", args, "ok", "ok", Some(TRUE))
         /\ UNCHANGED <<nextId, year>>

\* mutant: skip counts pages, not rows
get_all_appointments_page_number(rows, skip, limit) ==
    <<SubSeq(rows, skip * limit + 1,
             IF skip * limit + limit < Len(rows) THEN skip * limit + limit
             ELSE Len(rows)),
      Len(rows)>>

\* SELECT count(*), then SELECT ... OFFSET skip LIMIT limit: the rows come in
\* primary-key order, the order in which they were inserted
get_all_appointments(rows, skip, limit) ==
    <<SubSeq(rows, skip + 1,
             IF skip + limit < Len(rows) THEN skip + limit ELSE Len(rows)),
      Len(rows)>>

List(skip, limit) ==
    /\ last' = Call("list",
                    [NoArgs EXCEPT !.query = Some([skip |-> skip, limit |-> limit])],
                    "ok", "ok", Some(get_all_appointments(store, skip, limit)))
    /\ UNCHANGED <<store, nextId, year>>

\* get_scheduled_appointments_count and its three siblings, one per status
get_status_appointments_count(status) ==
    /\ last' = Call("count_by_status",
                    [NoArgs EXCEPT !.query = Some([status |-> Some(status)])],
                    "ok", "ok", Some(count_by_status(store, status)))
    /\ UNCHANGED <<store, nextId, year>>

get_appointment_count_for_doctor(doctor_id, status) ==
    /\ last' = Call("count_by_doctor",
                    [NoArgs EXCEPT !.query = Some([doctor_id |-> doctor_id,
                                                  status |-> status])],
                    "ok", "ok", Some(count_by_doctor(store, doctor_id, status)))
    /\ UNCHANGED <<store, nextId, year>>

get_appointment_count_for_patient(patient_id, status) ==
    /\ last' = Call("count_by_patient",
                    [NoArgs EXCEPT !.query = Some([patient_id |-> patient_id,
                                                  status |-> status])],
                    "ok", "ok", Some(count_by_patient(store, patient_id, status)))
    /\ UNCHANGED <<store, nextId, year>>

start_hour == 9
end_hour == 18
slot_duration == 30

\* strftime("%H:%M") of a time: its hour and its minute
strftime_HM(t) == <<t \div 60, t % 60>>

\* the while loop of get_available_time_slots from (current_hour,
\* current_minute) on; available_slots is the list built so far
RECURSIVE slot_loop(_, _, _, _, _)
slot_loop(booked_appointments, appointment_date, current_hour, current_minute, available_slots) ==
    IF ~ (current_hour < end_hour) THEN available_slots
    ELSE
    LET slot_start_time == TimeOf(current_hour, current_minute)
        end_minute == current_minute + slot_duration
        slot_end_hour == IF end_minute >= 60 THEN current_hour + 1 ELSE current_hour
        slot_end_minute == IF end_minute >= 60 THEN end_minute - 60 ELSE end_minute
    IN
    IF slot_end_hour >= end_hour THEN available_slots    \* break
    ELSE
    LET slot_end_time == TimeOf(slot_end_hour, slot_end_minute)
        is_available ==
            \A k \in 1 .. Len(booked_appointments) :
                ~ (slot_start_time < booked_appointments[k].appointment_end_time
                   /\ slot_end_time > booked_appointments[k].appointment_start_time)
        slot_info == [start_time |-> strftime_HM(slot_start_time),
                      end_time |-> strftime_HM(slot_end_time),
                      available |-> is_available,
                      date |-> appointment_date]
        next_minute == current_minute + slot_duration
    IN  slot_loop(booked_appointments, appointment_date,
                  IF next_minute >= 60 THEN current_hour + 1 ELSE current_hour,
                  IF next_minute >= 60 THEN 0 ELSE next_minute,
                  IF is_available THEN Append(available_slots, slot_info)
                  ELSE available_slots)

\* mutant: the handler lets the error through
slots_on_exception_reraised == [result |-> "Exception", ret |-> None]

\* the except clause: the error is printed and an empty list returned
slots_on_exception == [result |-> "ok", ret |-> Some(<<>>)]

\* db_error: the select of the booked rows raises
get_available_time_slots(doctor_id, appointment_date, db_error) ==
    LET args == [NoArgs EXCEPT !.query = Some([doctor_id |-> doctor_id,
                                               appointment_date |-> appointment_date])]
        booked_appointments == get_available_slots(store, doctor_id, appointment_date)
    IN
    /\ last' = IF db_error
               THEN Call("available_slots", args, slots_on_exception.result,
                         "db_error", slots_on_exception.ret)
               ELSE Call("available_slots", args, "ok", "ok",
                         Some(slot_loop(booked_appointments, appointment_date,
                                        start_hour, 0, <<>>)))
    /\ UNCHANGED <<store, nextId, year>>

\* ------------------------------------------- app/api/v1/endpoints/appointments
\* The status code each endpoint answers with, from the outcome of its service
\* call: the except clauses in their order, `except Exception` last.
http_create_appointment(result) ==
    CASE result = "ok" -> 201
      [] result = "AppointmentConflictError" -> 409
      [] result = "ValidationError" -> 422
      [] result = "BusinessRuleViolationError" -> 400
      [] OTHER -> 500

http_get_appointment(result) ==
    CASE result = "ok" -> 200
      [] result = "AppointmentNotFoundError" -> 404
      [] OTHER -> 500

http_update_appointment_status(result) ==
    CASE result = "ok" -> 200
      [] result = "AppointmentNotFoundError" -> 404
      [] result = "ValidationError" -> 422
      [] OTHER -> 500

\* mutant: the handler has no clause for AppointmentConflictError
http_update_appointment_no_conflict_clause(result) ==
    CASE result = "ok" -> 200
      [] result = "AppointmentNotFoundError" -> 404
      [] result = "ValidationError" -> 422
      [] OTHER -> 500

http_update_appointment(result) ==
    CASE result = "ok" -> 200
      [] result = "AppointmentNotFoundError" -> 404
      [] result = "ValidationError" -> 422
      [] result = "AppointmentConflictError" -> 409
      [] OTHER -> 500

http_delete_appointment(result) ==
    CASE result = "ok" -> 200
      [] result = "AppointmentNotFoundError" -> 404
      [] OTHER -> 500

\* the response to the request that made the service call
http_status(call) ==
    CASE call.op = "create" -> http_create_appointment(call.result)
      [] call.op = "get" -> http_get_appointment(call.result)
      [] call.op = "update_status" -> http_update_appointment_status(call.result)
      [] call.op = "update" -> http_update_appointment(call.result)
      [] call.op = "delete" -> http_delete_appointment(call.result)

\* create_appointment run by request worker w, one database statement a step.
\* First step: the business-hours and duration checks and the conflict query.
WorkerCheck(w, req) ==
    LET verdict == create_checks(store, req, FALSE) IN
    /\ workers[w].pc = "idle"
    /\ workers' = [workers EXCEPT ![w] =
          IF verdict[1] # "ok"
          THEN [@ EXCEPT !.pc = "done", !.req = Some(req),
                         !.result = verdict[1], !.detail = verdict[2]]
          ELSE [@ EXCEPT !.pc = "generate", !.req = Some(req)]]
    /\ UNCHANGED <<store, nextId, year, last, deleted_ids, sessions>>

\* the count query of generate_appointment_id
WorkerGenerate(w) ==
    /\ workers[w].pc = "generate"
    /\ workers' = [workers EXCEPT ![w] =
          [@ EXCEPT !.pc = "insert",
                    !.appointment_id = Some(generate_appointment_id(store, year))]]
    /\ UNCHANGED <<store, nextId, year, last, deleted_ids, sessions>>

\* one pass of the insert loop: the commit, or IntegrityError, rollback and a
\* random suffix r for the next pass.  The error's text carries the INSERT
\* statement, which names the column appointment_id, so every IntegrityError
\* of the insert takes the collision branch.
WorkerInsert(w, r) ==
    LET me == workers[w]
        row == NewRow(nextId, me.appointment_id[1], me.req[1])
    IN
    /\ me.pc = "insert"
    /\ IF \/ unique_violation(store, me.appointment_id[1])
          \/ other_integrity_error(store, row)
       THEN /\ workers' = [workers EXCEPT ![w] =
                  IF me.attempt + 1 = max_retries
                  THEN [@ EXCEPT !.pc = "done", !.attempt = @ + 1,
                                 !.appointment_id = Some(<<year, r>>),
                                 !.result = "ValidationError",
                                 !.detail = "id_exhausted"]
                  ELSE [@ EXCEPT !.attempt = @ + 1,
                                 !.appointment_id = Some(<<year, r>>)]]
            /\ UNCHANGED <<store, nextId>>
       ELSE /\ r = 0
            /\ nextId <= MaxCreates
            /\ store' = Append(store, row)
            /\ nextId' = nextId + 1
            /\ workers' = [workers EXCEPT ![w] =
                  [@ EXCEPT !.pc = "done", !.result = "ok", !.detail = "ok"]]
    /\ UNCHANGED <<year, last, deleted_ids, sessions>>

\* A direct call of the helper generate_appointment_id on a table that holds,
\* besides the rows of store, `more` rows with booking ids of the current year.
GenerateProbe(more) ==
    LET appointment_id == generate_appointment_id(store, year)
        widened == <<appointment_id[1], appointment_id[2] + more>>
    IN
    /\ last' = Call("generate_appointment_id",
                    [NoArgs EXCEPT !.more = Some(more)],
                    "ok", "ok", Some(appointment_id_text(widened)))
    /\ UNCHANGED <<store, nextId, year>>

\* a direct call of the helper validate_appointment_conflict
ConflictProbe(doctor_id, appointment_date, start_time, end_time, exclude) ==
    /\ last' = Call("validate_appointment_conflict",
                    [NoArgs EXCEPT
                        !.req = Some(Req(doctor_id, "PAT-1", appointment_date,
                                         start_time, end_time)),
                        !.exclude = exclude],
                    "ok", "ok",
                    Some(validate_appointment_conflict(store, doctor_id,
                             appointment_date, start_time, end_time, exclude)))
    /\ UNCHANGED <<store, nextId, year>>

\* ---------------------------------------------------------- specifications
NoCall == Call("none", NoArgs, "none", "none", None)

Workers == 1 .. NumWorkers

\* a worker that has not entered create_appointment
IdleWorker ==
    [pc |-> "idle", req |-> None, appointment_id |-> None, attempt |-> 0,
     result |-> "none", detail |-> "none"]

\* a session that has not entered update_appointment_status
IdleSession ==
    [pc |-> "idle", bid |-> None, target |-> "None", appointment |-> None,
     commits |-> 0, result |-> "none", detail |-> "none", ret |-> None]

NoWork ==
    /\ workers = [w \in Workers |-> IdleWorker]
    /\ deleted_ids = {}
    /\ sessions = [s \in Workers |-> IdleSession]

\* Life cycle of bookings, from the empty table.
Init ==
    /\ store = <<>>
    /\ nextId = 1
    /\ year = 2025
    /\ last = NoCall
    /\ NoWork

Next ==
    \/ \E req \in CreateReqs : Create(req) /\ UNCHANGED aux
    \/ \E bid \in BookingIds : Get(bid) /\ UNCHANGED aux
    \/ \E bid \in BookingIds, target \in Statuses :
          UpdateStatus(bid, target) /\ UNCHANGED aux
    \/ \E bid \in BookingIds, patch \in UpdatePatches :
          Update(bid, patch) /\ UNCHANGED aux
    \/ \E bid \in BookingIds : Delete(bid) /\ UNCHANGED aux

Spec == Init /\ [][Next]_vars

\* The same life cycle on a table that already holds a PENDING row: the status
\* column admits PENDING, the service itself never writes it.
PendingRow ==
    [NewRow(1, <<2025, 1>>,
            Req("DOC-1", "PAT-1", 1, TimeOf(10, 0), TimeOf(10, 30)))
        EXCEPT !.status = "PENDING"]

InitSeeded ==
    /\ store = <<PendingRow>>
    /\ nextId = 2
    /\ year = 2025
    /\ last = NoCall
    /\ NoWork

SpecSeeded == InitSeeded /\ [][Next]_vars

\* Creation only, with requests around the opening hours and the 15 minutes.
BoundaryReqs ==
    { Req("DOC-1", "PAT-1", 1, TimeOf(9, 0), TimeOf(9, 15)),    \* 15 minutes, from opening
      Req("DOC-1", "PAT-1", 1, TimeOf(9, 15), TimeOf(9, 30)),   \* back to back with it
      Req("DOC-1", "PAT-1", 1, TimeOf(9, 10), TimeOf(9, 25)),   \* overlaps both
      Req("DOC-1", "PAT-1", 1, TimeOf(17, 30), TimeOf(18, 0)),  \* ends at closing
      Req("DOC-2", "PAT-1", 1, TimeOf(9, 0), TimeOf(9, 15)),    \* other doctor
      Req("DOC-1", "PAT-1", 2, TimeOf(9, 0), TimeOf(9, 15)),    \* other date
      Req("DOC-1", "PAT-1", 1, TimeOf(9, 0), TimeOf(9, 10)),    \* 10 minutes
      Req("DOC-1", "PAT-1", 1, TimeOf(9, 5), TimeOf(9, 19)),    \* 14 minutes
      Req("DOC-1", "PAT-1", 1, TimeOf(18, 0), TimeOf(18, 30)),  \* after closing
      Req("DOC-1", "PAT-1", 1, TimeOf(17, 30), TimeOf(18, 30)), \* runs past closing
      Req("DOC-1", "PAT-1", 1, TimeOf(8, 55), TimeOf(9, 5)),    \* early and short
      Req("DOC-1", "PAT-1", 1, TimeOf(17, 55), TimeOf(18, 5)),  \* late and short
      Req("DOC-1", "PAT-1", 1, TimeOf(8, 45), TimeOf(9, 15)),   \* starts before opening
      Req("DOC-1", "PAT-1", 1, TimeOf(9, 15), TimeOf(9, 0)) }   \* ends before it starts

NextCreate ==
    \/ \E req \in BoundaryReqs : Create(req) /\ UNCHANGED aux
    \/ \E bid \in BookingIds : Get(bid) /\ UNCHANGED aux

SpecCreate == Init /\ [][NextCreate]_vars

\* The conflict query alone, on tables of one or two rows.
ProbeTimes == { TimeOf(10, 0), TimeOf(10, 15), TimeOf(10, 30), TimeOf(10, 45) }

ProbeRows ==
    { [NewRow(1, <<2025, 1>>, Req(d, "PAT-1", 1, s, e)) EXCEPT !.status = st] :
        d \in {"DOC-1", "DOC-2"}, st \in Statuses,
        s \in {TimeOf(10, 15)}, e \in {TimeOf(10, 30), TimeOf(10, 45)} }

ProbeRow ==
    NewRow(1, <<2025, 1>>, Req("DOC-1", "PAT-1", 1, TimeOf(10, 15), TimeOf(10, 30)))

SecondRow ==
    NewRow(2, <<2025, 2>>, Req("DOC-1", "PAT-1", 1, TimeOf(10, 0), TimeOf(10, 15)))

InitProbe ==
    /\ store \in { <<r>> : r \in ProbeRows } \cup { <<r, SecondRow>> : r \in ProbeRows }
    /\ nextId = Len(store) + 1
    /\ year = 2025
    /\ last = NoCall
    /\ NoWork

NextProbe ==
    \E d \in {"DOC-1", "DOC-2"}, dt \in {1, 2}, s \in ProbeTimes, e \in ProbeTimes,
       exclude \in {None, Some(1), Some(2)} :
        ConflictProbe(d, dt, s, e, exclude) /\ UNCHANGED aux

SpecProbe == InitProbe /\ [][NextProbe]_vars

\* Changes of stored bookings: two bookings of DOC-1 and one of DOC-2, moved,
\* handed to DOC-2 and cancelled.
MovedReqs ==
    { Req("DOC-1", "PAT-1", 1, TimeOf(10, 0), TimeOf(10, 30)),
      Req("DOC-1", "PAT-1", 1, TimeOf(11, 0), TimeOf(11, 30)),
      Req("DOC-2", "PAT-1", 1, TimeOf(10, 0), TimeOf(10, 30)) }

MovePatches ==
    { Patch(None, None, Some(TimeOf(10, 15)), Some(TimeOf(10, 45))),
      Patch(None, None, None, Some(TimeOf(11, 15))),               \* end only
      Patch(Some("DOC-2"), None, Some(TimeOf(10, 15)), Some(TimeOf(10, 45))),
      Patch(None, None, Some(TimeOf(15, 0)), Some(TimeOf(14, 0))) } \* end before start

NextUpdate ==
    \/ \E req \in MovedReqs : Create(req) /\ UNCHANGED aux
    \/ \E bid \in BookingIds, patch \in MovePatches :
          Update(bid, patch) /\ UNCHANGED aux
    \/ \E bid \in BookingIds : UpdateStatus(bid, "CANCELLED") /\ UNCHANGED aux

SpecUpdate == Init /\ [][NextUpdate]_vars

\* Creations side by side, and deletions: each worker runs create_appointment
\* once, its database statements interleaved with the other workers'.
RaceReqs ==
    { Req("DOC-1", "PAT-1", 1, TimeOf(10, 0), TimeOf(10, 30)),
      Req("DOC-1", "PAT-1", 1, TimeOf(10, 15), TimeOf(10, 45)),  \* overlaps the first
      Req("DOC-2", "PAT-1", 1, TimeOf(10, 0), TimeOf(10, 30)),   \* other doctor
      Req("DOC-1", "PAT-1", 1, TimeOf(10, 0), TimeOf(10, 10)) }  \* 10 minutes

\* delete_appointment, with the deleted booking id added to the history
DeleteRecorded(bid) ==
    /\ Delete(bid)
    /\ deleted_ids' = IF last'.result = "ok" THEN deleted_ids \cup {bid}
                      ELSE deleted_ids
    /\ UNCHANGED <<workers, sessions>>

NextRace ==
    \/ \E w \in Workers, req \in RaceReqs : WorkerCheck(w, req)
    \/ \E w \in Workers : WorkerGenerate(w)
    \/ \E w \in Workers, r \in 0 .. RandMax : WorkerInsert(w, r)
    \/ \E bid \in BookingIds : DeleteRecorded(bid)

SpecRace == Init /\ [][NextRace]_vars

\* Creations, lookups and deletions one after the other, with the history of
\* deleted booking ids; a caller may name a booking id that was deleted.
NextIds ==
    \/ \E req \in CreateReqs : Create(req) /\ UNCHANGED aux
    \/ \E bid \in BookingIds \cup deleted_ids : Get(bid) /\ UNCHANGED aux
    \/ \E bid \in BookingIds \cup deleted_ids : DeleteRecorded(bid)

SpecIds == Init /\ [][NextIds]_vars

\* The identifier generator alone, on tables of up to two stored rows of this
\* year or the year before, and on larger ones.
GenerateTables ==
    { <<>> } \cup { <<[ProbeRow EXCEPT !.appointment_id = <<y, 1>>]>> : y \in {2024, 2025} }
      \cup { <<[ProbeRow EXCEPT !.appointment_id = <<y, 1>>], SecondRow>> :
                y \in {2024, 2025} }

MoreRows == (0 .. 40) \cup (9990 .. 10010) \cup {99998}

InitGenerate ==
    /\ store \in GenerateTables
    /\ nextId = Len(store) + 1
    /\ year = 2025
    /\ last = NoCall
    /\ NoWork

NextGenerate ==
    \E more \in MoreRows : GenerateProbe(more) /\ UNCHANGED aux

SpecGenerate == InitGenerate /\ [][NextGenerate]_vars

\* ------------------------------------------------------------------ claims
\* Creations and changes at the edges of the opening hours.
HoursReqs ==
    { Req("DOC-1", "PAT-1", 1, TimeOf(9, 0), TimeOf(9, 30)),
      Req("DOC-1", "PAT-1", 1, TimeOf(17, 30), TimeOf(18, 0)),
      Req("DOC-1", "PAT-1", 1, TimeOf(18, 0), TimeOf(18, 30)) }    \* after closing

HoursPatches ==
    { Patch(None, None, Some(TimeOf(10, 0)), Some(TimeOf(10, 30))),
      Patch(None, None, None, Some(TimeOf(18, 30))),               \* ends after closing
      Patch(None, None, Some(TimeOf(8, 30)), None) }               \* starts before opening

NextHours ==
    \/ \E req \in HoursReqs : Create(req) /\ UNCHANGED aux
    \/ \E bid \in BookingIds, patch \in HoursPatches :
          Update(bid, patch) /\ UNCHANGED aux

SpecHours == Init /\ [][NextHours]_vars

\* Pages of the table while bookings are created and deleted.
ListReqs ==
    { Req("DOC-1", "PAT-1", 1, TimeOf(10, 0), TimeOf(10, 30)),
      Req("DOC-1", "PAT-1", 1, TimeOf(11, 0), TimeOf(11, 30)),
      Req("DOC-2", "PAT-1", 1, TimeOf(10, 0), TimeOf(10, 30)) }

NextList ==
    \/ \E req \in ListReqs : Create(req) /\ UNCHANGED aux
    \/ \E bid \in BookingIds : Delete(bid) /\ UNCHANGED aux
    \/ \E skip \in 0 .. MaxSkip, limit \in 1 .. MaxLimit :
          List(skip, limit) /\ UNCHANGED aux

SpecList == Init /\ [][NextList]_vars

\* Counts while bookings are created, change status and are deleted, on a
\* table that already holds a PENDING row.
CountReqs ==
    { Req("DOC-1", "PAT-2", 1, TimeOf(11, 0), TimeOf(11, 30)),
      Req("DOC-2", "PAT-1", 1, TimeOf(10, 0), TimeOf(10, 30)) }

OptionalStatuses == {None} \cup { Some(s) : s \in Statuses }

NextCount ==
    \/ \E req \in CountReqs : Create(req) /\ UNCHANGED aux
    \/ \E bid \in BookingIds, target \in Statuses :
          UpdateStatus(bid, target) /\ UNCHANGED aux
    \/ \E bid \in BookingIds : Delete(bid) /\ UNCHANGED aux
    \/ \E status \in Statuses : get_status_appointments_count(status) /\ UNCHANGED aux
    \/ \E doctor_id \in {"DOC-1", "DOC-2"}, status \in OptionalStatuses :
          get_appointment_count_for_doctor(doctor_id, status) /\ UNCHANGED aux
    \/ \E patient_id \in {"PAT-1", "PAT-2"}, status \in OptionalStatuses :
          get_appointment_count_for_patient(patient_id, status) /\ UNCHANGED aux

SpecCount == InitSeeded /\ [][NextCount]_vars

\* Free slots of a doctor's day while bookings are created and change status,
\* on a table that already holds a PENDING row of DOC-1 at 10:00-10:30; the
\* select of the booked rows may fail.
SlotReqs ==
    { Req("DOC-1", "PAT-1", 1, TimeOf(10, 40), TimeOf(11, 10)),  \* across two slots
      Req("DOC-1", "PAT-1", 1, TimeOf(17, 30), TimeOf(18, 0)),   \* the last half hour
      Req("DOC-1", "PAT-1", 2, TimeOf(10, 0), TimeOf(10, 30)),   \* other date
      Req("DOC-2", "PAT-1", 1, TimeOf(9, 0), TimeOf(9, 30)) }    \* other doctor

NextSlots ==
    \/ \E req \in SlotReqs : Create(req) /\ UNCHANGED aux
    \/ \E bid \in BookingIds, target \in Statuses :
          UpdateStatus(bid, target) /\ UNCHANGED aux
    \/ \E doctor_id \in {"DOC-1", "DOC-2"}, appointment_date \in {1, 2},
          db_error \in BOOLEAN :
          get_available_time_slots(doctor_id, appointment_date, db_error)
          /\ UNCHANGED aux

SpecSlots == InitSeeded /\ [][NextSlots]_vars

\* The life cycle with a request outside the opening hours among the creations,
\* so that every error kind of the service is raised.
RefusedReqs ==
    { Req("DOC-1", "PAT-1", 1, TimeOf(18, 0), TimeOf(18, 30)) }

NextTransport ==
    \/ Next
    \/ \E req \in RefusedReqs : Create(req) /\ UNCHANGED aux

SpecTransport == Init /\ [][NextTransport]_vars

\* Creations on a calendar whose bookings are cancelled and completed: the
\* same interval asked again, for the same doctor, another doctor, another date.
CalendarReqs ==
    { Req("DOC-1", "PAT-1", 1, TimeOf(10, 0), TimeOf(10, 30)),
      Req("DOC-1", "PAT-1", 1, TimeOf(10, 15), TimeOf(10, 45)),  \* overlaps the first
      Req("DOC-2", "PAT-1", 1, TimeOf(10, 0), TimeOf(10, 30)),   \* other doctor
      Req("DOC-1", "PAT-1", 2, TimeOf(10, 0), TimeOf(10, 30)) }  \* other date

NextCalendar ==
    \/ \E req \in CalendarReqs : Create(req) /\ UNCHANGED aux
    \/ \E bid \in BookingIds, target \in {"CANCELLED", "COMPLETED"} :
          UpdateStatus(bid, target) /\ UNCHANGED aux

SpecCalendar == Init /\ [][NextCalendar]_vars

\* Creations and field updates on a storage whose queries may raise: the
\* conflict query, and the count query of the id generator, whose fallback
\* reads the clock.
FaultReqs ==
    { Req("DOC-1", "PAT-1", 1, TimeOf(10, 0), TimeOf(10, 30)),
      Req("DOC-1", "PAT-1", 1, TimeOf(10, 15), TimeOf(10, 45)),  \* overlaps the first
      Req("DOC-2", "PAT-1", 1, TimeOf(10, 0), TimeOf(10, 30)) }   \* other doctor

FaultPatches ==
    { Patch(None, None, Some(TimeOf(10, 15)), Some(TimeOf(10, 45))) }

\* seconds since the epoch, in November 2025: the last four digits are 0001,
\* 9999 and 0000
Timestamps == { 1762400001, 1762409999, 1762410000 }

\* no query raises, the conflict query raises, or the count query raises
Faults ==
    { [conflict_error |-> c, count_error |-> FALSE, timestamp |-> 0] : c \in BOOLEAN }
        \cup { [conflict_error |-> FALSE, count_error |-> TRUE, timestamp |-> t] :
                   t \in Timestamps }

NextFaults ==
    \/ \E req \in FaultReqs, faults \in Faults : CreateFaulty(req, faults) /\ UNCHANGED aux
    \/ \E bid \in BookingIds, patch \in FaultPatches, conflict_error \in BOOLEAN :
          UpdateFaulty(bid, patch, conflict_error) /\ UNCHANGED aux

SpecFaults == Init /\ [][NextFaults]_vars

\* update_appointment_status run in the session of request worker s, one
\* database statement a step.  First step: SELECT the row by booking id, check
\* the transition against the status read, set the new status on the object.
SessionLoad(s, bid, target) ==
    LET found == get_by_id(store, bid) IN
    /\ sessions[s].pc = "idle"
    /\ sessions' = [sessions EXCEPT ![s] =
          IF found = None
          THEN [@ EXCEPT !.pc = "done", !.bid = Some(bid), !.target = target,
                         !.result = "AppointmentNotFoundError",
                         !.detail = "not_found"]
          ELSE LET appointment == store[found[1]] IN
               IF /\ appointment.status \in DOMAIN valid_transitions
                  /\ target \notin valid_transitions[appointment.status]
               THEN [@ EXCEPT !.pc = "done", !.bid = Some(bid), !.target = target,
                              !.result = "ValidationError", !.detail = "transition"]
               ELSE [@ EXCEPT !.pc = "commit", !.bid = Some(bid), !.target = target,
                              !.appointment =
                                  Some([appointment EXCEPT !.status = target])]]
    /\ UNCHANGED <<store, nextId, year, last, workers, deleted_ids>>

\* the rows of the table with the primary key of the session's object
RowsWithPk(rows, appointment) ==
    { i \in 1 .. Len(rows) : rows[i].id = appointment.id }

\* repository.update up to its commit: UPDATE ... SET status, updated_at WHERE
\* id = pk writes the changed columns to the row as it is now in the table; a
\* row deleted meanwhile matches nothing and the flush raises StaleDataError
SessionCommit(s) ==
    LET me == sessions[s]
        hit == RowsWithPk(store, me.appointment[1])
    IN
    /\ me.pc = "commit"
    /\ IF hit = {}
       THEN /\ sessions' = [sessions EXCEPT ![s] =
                  [@ EXCEPT !.pc = "done", !.result = "StaleDataError",
                            !.detail = "stale"]]
            /\ UNCHANGED store
       ELSE LET i == CHOOSE k \in hit : TRUE IN
            /\ store' = repository_update(store, i,
                            [store[i] EXCEPT !.status = me.appointment[1].status])
            /\ sessions' = [sessions EXCEPT ![s] =
                  [@ EXCEPT !.pc = "refresh", !.commits = @ + 1]]
    /\ UNCHANGED <<nextId, year, last, workers, deleted_ids>>

\* session.refresh after the commit: SELECT the row by primary key in a new
\* transaction; a row deleted meanwhile raises InvalidRequestError
SessionRefresh(s) ==
    LET me == sessions[s]
        hit == RowsWithPk(store, me.appointment[1])
    IN
    /\ me.pc = "refresh"
    /\ sessions' = [sessions EXCEPT ![s] =
          IF hit = {}
          THEN [@ EXCEPT !.pc = "done", !.result = "InvalidRequestError",
                         !.detail = "refresh"]
          ELSE [@ EXCEPT !.pc = "done", !.result = "ok", !.detail = "ok",
                         !.ret = Some(store[CHOOSE k \in hit : TRUE])]]
    /\ UNCHANGED <<store, nextId, year, last, workers, deleted_ids>>

\* Status changes side by side: each worker's session runs
\* update_appointment_status once, its statements interleaved with the other
\* sessions' and with creations and deletions.
SessionReqs == { Req("DOC-1", "PAT-1", 1, TimeOf(10, 0), TimeOf(10, 30)) }

NextSessions ==
    \/ \E req \in SessionReqs : Create(req) /\ UNCHANGED aux
    \/ \E s \in Workers, bid \in BookingIds, target \in Statuses :
          SessionLoad(s, bid, target)
    \/ \E s \in Workers : SessionCommit(s)
    \/ \E s \in Workers : SessionRefresh(s)
    \/ \E bid \in BookingIds : Delete(bid) /\ UNCHANGED aux

SpecSessions == Init /\ [][NextSessions]_vars

\* What the claims say, written out from their own words: the claims' opening
\* hours, minimum length, active statuses, overlap test and transition table.
ClaimInHours(r) ==
    /\ r.appointment_start_time >= 540
    /\ r.appointment_end_time <= 1080
    /\ r.appointment_start_time < r.appointment_end_time

ClaimLength(r) == r.appointment_end_time - r.appointment_start_time

ClaimActive(row) == row.status \in {"SCHEDULED", "PENDING"}

ClaimOverlap(a_start, a_end, b_start, b_end) == a_start < b_end /\ b_start < a_end

\* the active rows of the request's doctor and date that overlap its interval
ClaimClashes(rows, r) ==
    { i \in 1 .. Len(rows) :
        /\ rows[i].doctor_id = r.doctor_id
        /\ rows[i].appointment_date = r.appointment_date
        /\ ClaimActive(rows[i])
        /\ ClaimOverlap(rows[i].appointment_start_time, rows[i].appointment_end_time,
                        r.appointment_start_time, r.appointment_end_time) }

ClaimEdges ==
    { <<"SCHEDULED", "COMPLETED">>, <<"SCHEDULED", "CANCELLED">>,
      <<"PENDING", "SCHEDULED">>, <<"PENDING", "CANCELLED">>,
      <<"CANCELLED", "SCHEDULED">> }

\* the rows stored under the booking id of the call
Stored(rows, call) ==
    { i \in 1 .. Len(rows) : rows[i].appointment_id = call.args.bid[1] }

\* C1: no two stored rows of one doctor and one date, both SCHEDULED or
\* PENDING, have overlapping half-open intervals [start, end).
C1_NoDoubleBooking ==
    \A i, j \in 1 .. Len(store) :
        (/\ i # j
         /\ store[i].doctor_id = store[j].doctor_id
         /\ store[i].appointment_date = store[j].appointment_date
         /\ ClaimActive(store[i]) /\ ClaimActive(store[j]))
        => ~ClaimOverlap(store[i].appointment_start_time, store[i].appointment_end_time,
                         store[j].appointment_start_time, store[j].appointment_end_time)

\* C2: update_status on a stored row with a (from, to) pair outside the
\* transition table, same-state pairs included, raises the validation error
\* and leaves the table, status and updated_at included, as it was.
C2_InvalidTransitionRejected ==
    [][ (/\ last'.op = "update_status"
         /\ \E i \in Stored(store, last') :
               <<store[i].status, last'.args.target>> \notin ClaimEdges)
        => (last'.result = "ValidationError" /\ store' = store) ]_vars

C2_Witness ==
    /\ last.op = "update_status"
    /\ last.result = "ValidationError"
    /\ last.args.target = "COMPLETED"
    /\ \E i \in Stored(store, last) : store[i].status = "PENDING"

\* C3: update_status on a stored row with a (from, to) pair of the transition
\* table succeeds and stores status `to`; and a get of a stored booking id
\* returns the status the table holds for it, so the get that follows returns `to`.
C3_ValidTransitionApplied ==
    [][ /\ (/\ last'.op = "update_status"
            /\ \E i \in Stored(store, last') :
                  <<store[i].status, last'.args.target>> \in ClaimEdges)
           => (/\ last'.result = "ok"
               /\ Len(store') = Len(store)
               /\ \A i \in Stored(store, last') :
                     /\ store'[i].status = last'.args.target
                     /\ store'[i].appointment_id = store[i].appointment_id
               /\ last'.ret # None /\ last'.ret[1].status = last'.args.target)
        /\ (last'.op = "get" /\ Stored(store, last') # {})
           => (/\ last'.result = "ok"
               /\ last'.ret # None
               /\ \E i \in Stored(store, last') : last'.ret[1] = store[i]) ]_vars

C3_Witness ==
    /\ last.op = "get"
    /\ last.result = "ok"
    /\ last.ret[1].status = "CANCELLED"

\* C4: a row that is COMPLETED is, after any step, still COMPLETED or gone.
C4_CompletedIsTerminal ==
    [][ \A i \in 1 .. Len(store) :
            store[i].status = "COMPLETED"
            => \A j \in 1 .. Len(store') :
                   store'[j].id = store[i].id => store'[j].status = "COMPLETED" ]_vars

C4_Witness ==
    /\ last.op = "update_status"
    /\ last.result = "ValidationError"
    /\ last.args.target = "SCHEDULED"
    /\ \E i \in Stored(store, last) : store[i].status = "COMPLETED"

\* C5: create reports the first failing check only, in the order business
\* hours, minimum duration, conflict: a request outside business hours and
\* shorter than 15 minutes raises the business-rule violation; a request
\* inside business hours, shorter than 15 minutes and overlapping an active
\* booking raises the validation error, not the conflict error.
C5_CreateCheckOrder ==
    [][ last'.op = "create"
        => LET r == last'.args.req[1] IN
           /\ (~ClaimInHours(r) /\ ClaimLength(r) < 15)
              => last'.result = "BusinessRuleViolationError"
           /\ (ClaimInHours(r) /\ ClaimLength(r) < 15 /\ ClaimClashes(store, r) # {})
              => last'.result = "ValidationError" ]_vars

C5_Witness ==
    /\ last.op = "create"
    /\ last.result = "ValidationError"
    /\ ClaimInHours(last.args.req[1])
    /\ ClaimLength(last.args.req[1]) < 15
    /\ ClaimClashes(store, last.args.req[1]) # {}

C7_MinimumDurationEnforced ==
    [][ last'.op = "create"
        => LET r == last'.args.req[1] IN
           /\ (ClaimInHours(r) /\ ClaimLength(r) < 15)
              => (last'.result = "ValidationError" /\ store' = store)
           /\ (ClaimInHours(r) /\ ClaimLength(r) = 15)
              => last'.detail # "min_duration" ]_vars

C7_Witness ==
    /\ last.op = "create"
    /\ last.result = "ValidationError"
    /\ ClaimInHours(last.args.req[1])
    /\ ClaimLength(last.args.req[1]) = 10

\* C8 as stated: every create of an interval that overlaps, half-open, a
\* SCHEDULED or PENDING row of the same doctor and date raises the conflict
\* error and leaves the table as it was.  The code refutes it: the business
\* hours and duration checks come first and raise their own errors.
C8_OverlapAlwaysConflictError ==
    [][ (/\ last'.op = "create"
         /\ ClaimClashes(store, last'.args.req[1]) # {})
        => (last'.result = "AppointmentConflictError" /\ store' = store) ]_vars

\* C8, amended: create of an interval inside business hours and at least 15
\* minutes long that overlaps, half-open, a SCHEDULED or PENDING row of the
\* same doctor and date raises the conflict error and leaves the table as it
\* was.
C8_OverlapRejected ==
    [][ (/\ last'.op = "create"
         /\ ClaimInHours(last'.args.req[1])
         /\ ClaimLength(last'.args.req[1]) >= 15
         /\ ClaimClashes(store, last'.args.req[1]) # {})
        => (last'.result = "AppointmentConflictError" /\ store' = store) ]_vars

C8_Witness ==
    /\ last.op = "create"
    /\ last.result = "AppointmentConflictError"
    /\ last.args.req[1].appointment_start_time = 615
    /\ last.args.req[1].appointment_end_time = 645
    /\ \E i \in ClaimClashes(store, last.args.req[1]) :
          /\ store[i].appointment_start_time = 600
          /\ store[i].appointment_end_time = 630

\* the active rows of the request's doctor and date
ClaimSameCalendar(rows, r) ==
    { i \in 1 .. Len(rows) :
        /\ rows[i].doctor_id = r.doctor_id
        /\ rows[i].appointment_date = r.appointment_date
        /\ ClaimActive(rows[i]) }

\* C9: back-to-back bookings do not conflict: a create whose interval only
\* touches the active rows of its doctor and date (it starts at or after their
\* end, or ends at or before their start) is not refused with the conflict error.
C9_BackToBackAccepted ==
    [][ (/\ last'.op = "create"
         /\ \A i \in ClaimSameCalendar(store, last'.args.req[1]) :
               \/ store[i].appointment_end_time
                     <= last'.args.req[1].appointment_start_time
               \/ last'.args.req[1].appointment_end_time
                     <= store[i].appointment_start_time)
        => last'.result # "AppointmentConflictError" ]_vars

C9_Witness ==
    /\ last.op = "create"
    /\ last.result = "ok"
    /\ \E i \in ClaimSameCalendar(store, last.args.req[1]) :
          /\ store[i].id # last.ret[1].id
          /\ store[i].appointment_end_time = last.ret[1].appointment_start_time

\* C10: the conflict query answers true exactly when some row of that doctor
\* and date, SCHEDULED or PENDING and with an id other than `exclude`, has
\* row.start < end and start < row.end, whatever the four times are.
C10_ConflictIsHalfOpenOverlap ==
    last.op = "validate_appointment_conflict"
    => LET r == last.args.req[1] IN
       last.ret[1] <=>
          (\E i \in ClaimClashes(store, r) :
              last.args.exclude # None => store[i].id # last.args.exclude[1])

\* The two agree when the proposed interval has start < end (the stored ones do).
ConflictAgreesOnProperIntervals ==
    (/\ last.op = "validate_appointment_conflict"
     /\ last.args.req[1].appointment_start_time
           < last.args.req[1].appointment_end_time)
    => LET r == last.args.req[1] IN
       last.ret[1] <=>
          (\E i \in ClaimClashes(store, r) :
              last.args.exclude # None => store[i].id # last.args.exclude[1])

\* the table of one row left when the stored row takes the proposed interval
ClaimSwappedTable(row, r) ==
    <<[row EXCEPT !.appointment_start_time = r.appointment_start_time,
                  !.appointment_end_time = r.appointment_end_time]>>

\* C11: the conflict query's time predicate is symmetric: interval A proposed
\* against interval B stored gives the answer of B proposed against A stored
\* (same doctor and date, the stored row active, nothing excluded).
C11_OverlapSymmetric ==
    (/\ last.op = "validate_appointment_conflict"
     /\ Len(store) = 1
     /\ last.args.exclude = None
     /\ ClaimActive(store[1])
     /\ store[1].doctor_id = last.args.req[1].doctor_id
     /\ store[1].appointment_date = last.args.req[1].appointment_date)
    => (last.ret[1]
          <=> validate_appointment_conflict(
                  ClaimSwappedTable(store[1], last.args.req[1]),
                  store[1].doctor_id, store[1].appointment_date,
                  store[1].appointment_start_time,
                  store[1].appointment_end_time, None))

\* C12: no two stored rows have the same booking id, whatever the order in
\* which the workers' statements and the deletions run.
C12_UniqueBookingIds ==
    \A i, j \in 1 .. Len(store) :
        i # j => store[i].appointment_id # store[j].appointment_id

\* two rows stored, one of them by a worker whose first insert collided
C12_Witness ==
    /\ Len(store) = 2
    /\ \E w \in Workers :
          /\ workers[w].pc = "done"
          /\ workers[w].result = "ok"
          /\ workers[w].attempt >= 1

\* C13: a booking id is never reused: no stored row carries the booking id of
\* a row that was deleted before.
C13_NoReuseAfterDelete ==
    \A i \in 1 .. Len(store) : store[i].appointment_id \notin deleted_ids

\* the number a sequence of decimal characters stands for
RECURSIVE ClaimNumber(_)
ClaimNumber(chars) ==
    IF chars = <<>> THEN 0
    ELSE 10 * ClaimNumber(SubSeq(chars, 1, Len(chars) - 1))
           + ((CHOOSE k \in 1 .. 10 :
                   <<"0", "1", "2", "3", "4", "5", "6", "7", "8", "9">>[k]
                       = chars[Len(chars)]) - 1)

\* C14: the generator returns "APT-{year}-{n}" with n = c + 1, c being the
\* number of rows of the table whose booking id starts with "APT-{year}-";
\* n is written with exactly 4 characters, zero-padded, when n <= 9999, and
\* with all its digits and no padding when n >= 10000.
C14_GeneratedIdFormat ==
    last.op = "generate_appointment_id"
    => LET text == last.ret[1]
           c == Cardinality({ i \in 1 .. Len(store) :
                                store[i].appointment_id[1] = 2025 })
                  + last.args.more[1]
           n == c + 1
           suffix == SubSeq(text, 10, Len(text))
       IN  /\ SubSeq(text, 1, 9) = <<"A", "P", "T", "-", "2", "0", "2", "5", "-">>
           /\ ClaimNumber(suffix) = n
           /\ n <= 9999 => Len(suffix) = 4
           /\ n >= 10000 => (Len(suffix) > 4 /\ suffix[1] # "0")

\* the 10,000th id of the year, on a table with a row of the year before
C14_Witness ==
    /\ last.op = "generate_appointment_id"
    /\ last.args.more[1] = 9998
    /\ Len(store) = 2
    /\ last.ret[1] = <<"A", "P", "T", "-", "2", "0", "2", "5", "-",
                       "1", "0", "0", "0", "0">>
    /\ \E i \in 1 .. Len(store) : store[i].appointment_id[1] = 2024

\* the stored rows that carry the booking id a worker is about to insert
ClaimTaken(rows, w) ==
    { i \in 1 .. Len(rows) : rows[i].appointment_id = workers[w].appointment_id[1] }

\* C15: the insert loop of create is bounded.  An insert that meets a stored
\* booking id stores nothing and counts as one attempt; below 5 attempts the
\* worker stays in the loop with a candidate id, the 5th ends the call with
\* the generation failure; an insert that meets no stored id is at most the
\* 5th attempt and ends the call.
C15_RetryLoopBounded ==
    [][ \A w \in Workers :
          (workers[w].pc = "insert" /\ workers'[w] # workers[w])
          => IF ClaimTaken(store, w) # {}
             THEN /\ store' = store
                  /\ workers'[w].attempt = workers[w].attempt + 1
                  /\ workers'[w].attempt <= 5
                  /\ workers'[w].appointment_id # None
                  /\ workers'[w].attempt < 5 => workers'[w].pc = "insert"
                  /\ workers'[w].attempt = 5
                        => /\ workers'[w].pc = "done"
                           /\ workers'[w].result = "ValidationError"
                           /\ workers'[w].detail = "id_exhausted"
             ELSE /\ workers[w].attempt < 5
                  /\ workers'[w].pc = "done"
                  /\ workers'[w].result = "ok" ]_vars

\* a create whose five inserts all collided, its row not stored
C15_Witness ==
    \E w \in Workers :
        /\ workers[w].pc = "done"
        /\ workers[w].detail = "id_exhausted"
        /\ workers[w].attempt = 5
        /\ Len(store) = 1
        /\ store[1].doctor_id # workers[w].req[1].doctor_id

\* C16: N creations for distinct doctors, run side by side on the empty table
\* with nothing deleted, all succeed once they have all ended, whatever the
\* order of their count queries and inserts, and their booking ids are
\* distinct and of the form APT-<year>-\d{4}.
C16_ConcurrentCreatesAllSucceed ==
    (/\ deleted_ids = {}
     /\ \A w \in Workers :
           /\ workers[w].pc = "done"
           /\ ClaimInHours(workers[w].req[1])
           /\ ClaimLength(workers[w].req[1]) >= 15
     /\ \A v, w \in Workers :
           v # w => workers[v].req[1].doctor_id # workers[w].req[1].doctor_id)
    => /\ \A w \in Workers :
             /\ workers[w].result = "ok"
             /\ Len(appointment_id_text(workers[w].appointment_id[1])) = 13
       /\ \A v, w \in Workers :
             v # w => workers[v].appointment_id # workers[w].appointment_id

\* the active rows of the table that overlap, half-open, the row about to be
\* inserted by worker w, for the same doctor and date
ClaimRaceClashes(rows, w) == ClaimClashes(rows, workers[w].req[1])

\* C17: the conflict check is not repeated at the insert.  A create whose
\* conflict query passed commits its row when its booking id is free, also
\* when an overlapping active row of the same doctor and date was committed
\* by another worker in between; the table then holds both.
C17_InsertAfterStaleCheck ==
    [][ \A w \in Workers :
          (/\ workers[w].pc = "insert"
           /\ workers'[w] # workers[w]
           /\ ClaimTaken(store, w) = {})
          => /\ workers'[w].result = "ok"
             /\ Len(store') = Len(store) + 1
             /\ store'[Len(store')].doctor_id = workers[w].req[1].doctor_id
             /\ store'[Len(store')].status = "SCHEDULED"
             /\ ClaimRaceClashes(store', w) = ClaimRaceClashes(store, w) \cup {Len(store')}
       ]_vars

\* both creations of overlapping intervals for DOC-1 succeeded, nothing was
\* deleted, and the table holds the two active overlapping rows
C17_Witness ==
    /\ deleted_ids = {}
    /\ \A w \in Workers : workers[w].pc = "done" /\ workers[w].result = "ok"
    /\ Len(store) = 2
    /\ store[1].doctor_id = store[2].doctor_id
    /\ store[1].appointment_date = store[2].appointment_date
    /\ ClaimActive(store[1]) /\ ClaimActive(store[2])
    /\ ClaimOverlap(store[1].appointment_start_time, store[1].appointment_end_time,
                    store[2].appointment_start_time, store[2].appointment_end_time)

\* a patch's value for a field, or the row's own when the patch leaves it out
ClaimField(patched, own) == IF patched = <<>> THEN own ELSE patched[1]

\* the (doctor, date, start, end) a row has once the patch is applied
ClaimResulting(row, patch) ==
    [doctor_id |-> ClaimField(patch.doctor_id, row.doctor_id),
     appointment_date |-> ClaimField(patch.appointment_date, row.appointment_date),
     appointment_start_time |->
         ClaimField(patch.appointment_start_time, row.appointment_start_time),
     appointment_end_time |->
         ClaimField(patch.appointment_end_time, row.appointment_end_time)]

ClaimTouchesTime(patch) ==
    \/ patch.appointment_date # <<>>
    \/ patch.appointment_start_time # <<>>
    \/ patch.appointment_end_time # <<>>

\* the other active rows of the doctor and date the row i moves to
ClaimOthers(rows, i, r) ==
    { j \in 1 .. Len(rows) :
        /\ rows[j].id # rows[i].id
        /\ rows[j].doctor_id = r.doctor_id
        /\ rows[j].appointment_date = r.appointment_date
        /\ ClaimActive(rows[j]) }

\* C18: an update whose payload has a date, start or end checks the resulting
\* (doctor, date, start, end) against the other rows: it raises the conflict
\* error when another active row of that doctor and date overlaps the
\* resulting interval, and it raises none when that doctor has no other
\* active row on that date, the row's own stored interval never counting.
C18_UpdateRechecksConflict ==
    [][ (last'.op = "update" /\ ClaimTouchesTime(last'.args.patch[1]))
        => \A i \in Stored(store, last') :
             LET r == ClaimResulting(store[i], last'.args.patch[1])
                 others == ClaimOthers(store, i, r)
             IN  /\ (\E j \in others :
                        ClaimOverlap(store[j].appointment_start_time,
                                     store[j].appointment_end_time,
                                     r.appointment_start_time, r.appointment_end_time))
                    => last'.result = "AppointmentConflictError"
                 /\ others = {} => last'.result = "ok" ]_vars

\* the 11:00-11:30 booking is refused the move to 10:15-10:45, where the
\* doctor's other booking was moved from 10:00-10:30 before
C18_Witness ==
    /\ last.op = "update"
    /\ last.result = "AppointmentConflictError"
    /\ last.args.patch[1].appointment_start_time = <<615>>
    /\ \E i, j \in 1 .. Len(store) :
          /\ store[i].appointment_id = last.args.bid[1]
          /\ store[i].appointment_start_time = 660
          /\ store[j].doctor_id = store[i].doctor_id
          /\ store[j].appointment_start_time = 615
          /\ store[j].appointment_end_time = 645
          /\ store[j].updated_at # <<>>
          /\ ClaimActive(store[j])

\* C19: a successful update changes, in the row it names, only the fields its
\* payload provides and updated_at: a field the payload leaves out, the
\* status, the internal id and the booking id keep their values, a provided
\* field takes the payload's value, and every other row stays as it was.
C19_UpdateFrame ==
    [][ (last'.op = "update" /\ last'.result = "ok")
        => /\ Len(store') = Len(store)
           /\ \A i \in 1 .. Len(store) :
                IF i \in Stored(store, last')
                THEN LET p == last'.args.patch[1] IN
                     /\ store'[i].id = store[i].id
                     /\ store'[i].appointment_id = store[i].appointment_id
                     /\ store'[i].status = store[i].status
                     /\ store'[i].doctor_id = ClaimField(p.doctor_id, store[i].doctor_id)
                     /\ store'[i].patient_id = ClaimField(p.patient_id, store[i].patient_id)
                     /\ store'[i].appointment_date
                           = ClaimField(p.appointment_date, store[i].appointment_date)
                     /\ store'[i].appointment_start_time
                           = ClaimField(p.appointment_start_time,
                                        store[i].appointment_start_time)
                     /\ store'[i].appointment_end_time
                           = ClaimField(p.appointment_end_time,
                                        store[i].appointment_end_time)
                     /\ store'[i].updated_at # <<>>
                ELSE store'[i] = store[i] ]_vars

\* the end of the second of two bookings was moved alone: its start is the
\* one it was created with, the first booking was never touched
C19_Witness ==
    /\ last.op = "update"
    /\ last.result = "ok"
    /\ last.args.patch[1].appointment_start_time = <<>>
    /\ last.args.patch[1].appointment_end_time = <<675>>
    /\ Len(store) = 2
    /\ store[2].appointment_id = last.args.bid[1]
    /\ store[2].appointment_start_time = 660
    /\ store[2].appointment_end_time = 675
    /\ store[1].updated_at = <<>>

\* C20: every stored row has start < end and lasts at least 15 minutes; an
\* update that would leave end at or before start is refused.
C20_StoredIntervalsWellFormed ==
    \A i \in 1 .. Len(store) :
        /\ store[i].appointment_start_time < store[i].appointment_end_time
        /\ store[i].appointment_end_time - store[i].appointment_start_time >= 15


\* C21: after any sequence of create and update_fields operations every stored
\* row has 09:00 <= start_time and end_time <= 18:00.
C21_StoredWithinBusinessHours ==
    \A i \in 1 .. Len(store) :
        /\ 540 <= store[i].appointment_start_time
        /\ store[i].appointment_end_time <= 1080

\* C22: updated_at is absent on a row from its creation until its first
\* successful update_status or update_fields; every successful update_status
\* or update_fields sets it on the row it names; a failed operation changes
\* no row, and no other operation changes a row's updated_at.
C22_UpdatedAtSetByUpdates ==
    [][/\ \A j \in 1 .. Len(store') :
             (\A i \in 1 .. Len(store) : store[i].id # store'[j].id)
                 => /\ last'.op = "create" /\ last'.result = "ok"
                    /\ store'[j].updated_at = <<>>
       /\ (last'.op \in {"update_status", "update"} /\ last'.result = "ok")
             => /\ Stored(store', last') # {}
                /\ \A j \in Stored(store', last') : store'[j].updated_at # <<>>
       /\ \A i \in 1 .. Len(store), j \in 1 .. Len(store') :
             (store[i].id = store'[j].id
              /\ store[i].updated_at # store'[j].updated_at)
                 => /\ last'.op \in {"update_status", "update"}
                    /\ last'.result = "ok"
                    /\ store'[j].appointment_id = last'.args.bid[1]
       /\ (last'.result # "ok") => store' = store]_vars

C22_Witness ==
    /\ last.op = "update_status"
    /\ last.result = "ok"
    /\ Len(store) = 2
    /\ store[1].updated_at = <<>>
    /\ store[2].updated_at # <<>>
    /\ store[2].appointment_id = last.args.bid[1]
    /\ store[2].status = "COMPLETED"

\* the rows that remain when every row of the booking id is taken out
ClaimWithout(rows, bid) == SelectSeq(rows, LAMBDA row : row.appointment_id # bid)

\* C23: delete of a stored booking id removes exactly that row and returns
\* true; delete of a booking id that is not stored fails with not-found and
\* leaves the table unchanged; get fails with not-found exactly when the booking
\* id is not stored, and a booking id that is not stored becomes stored only by
\* a successful create.
C23_HardDelete ==
    [][/\ (last'.op = "delete" /\ Stored(store, last') # {})
             => /\ last'.result = "ok"
                /\ last'.ret = <<TRUE>>
                /\ Stored(store', last') = {}
                /\ store' = ClaimWithout(store, last'.args.bid[1])
                /\ Len(store') = Len(store) - 1
       /\ (last'.op = "delete" /\ Stored(store, last') = {})
             => /\ last'.result = "AppointmentNotFoundError"
                /\ store' = store
       /\ (last'.op = "get")
             => /\ (last'.result = "AppointmentNotFoundError")
                       <=> (Stored(store, last') = {})
                /\ store' = store
       /\ \A j \in 1 .. Len(store') :
             (\A i \in 1 .. Len(store) :
                  store[i].appointment_id # store'[j].appointment_id)
                 => (last'.op = "create" /\ last'.result = "ok")]_vars

\* a get of a deleted booking id, other rows still stored
C23_Witness ==
    /\ last.op = "get"
    /\ last.result = "AppointmentNotFoundError"
    /\ last.args.bid[1] \in deleted_ids
    /\ last.args.bid[1] = <<2025, 1>>
    /\ Len(store) = 1
    /\ store[1].appointment_id = <<2025, 2>>

\* the pages of size limit from the k-th on, one after the other
RECURSIVE ClaimPagesFrom(_, _, _)
ClaimPagesFrom(rows, limit, k) ==
    IF k * limit >= Len(rows) THEN <<>>
    ELSE get_all_appointments(rows, k * limit, limit)[1]
             \o ClaimPagesFrom(rows, limit, k + 1)

\* C24: list(offset, limit) returns total_count equal to the number of stored
\* rows whatever offset and limit are, and exactly
\* min(limit, max(0, total_count - offset)) rows, those at positions
\* offset .. offset+limit-1 of the insertion order; the consecutive pages of a
\* table, taken one after the other, are the table itself, every row once.
C24_ListPagination ==
    /\ last.op = "list"
          => LET offset == last.args.query[1].skip
                 limit == last.args.query[1].limit
                 page == last.ret[1][1]
                 total_count == last.ret[1][2]
                 rest == IF total_count - offset > 0 THEN total_count - offset ELSE 0
             IN  /\ last.result = "ok"
                 /\ total_count = Len(store)
                 /\ Len(page) = IF limit < rest THEN limit ELSE rest
                 /\ \A k \in 1 .. Len(page) : page[k] = store[offset + k]
    /\ \A limit \in 1 .. 3 :
          /\ ClaimPagesFrom(store, limit, 0) = store
          /\ \A i, j \in 1 .. Len(store) : store[i].id = store[j].id => i = j

\* the second page of one row of a table of two rows
C24_Witness ==
    /\ last.op = "list"
    /\ last.args.query[1] = [skip |-> 1, limit |-> 1]
    /\ Len(store) = 2
    /\ store[2].id = 2
    /\ last.ret[1][1] = <<store[2]>>
    /\ last.ret[1][2] = 2

\* the rows with the given value in the given column and, when a status is
\* asked for, that status
ClaimCounted(rows, column, value, status) ==
    { i \in 1 .. Len(rows) :
        /\ rows[i][column] = value
        /\ status # <<>> => rows[i].status = status[1] }

\* what a step adds to the count of status s when a row leaves status gone and
\* a row enters status come ("none": no row)
ClaimDelta(s, gone, come) ==
    (IF s = come THEN 1 ELSE 0) - (IF s = gone THEN 1 ELSE 0)

\* the counts of status s after a step are the counts before it plus the
\* delta, for the table, for the doctor and the patient of the row concerned,
\* and unchanged for the other doctors and patients
ClaimCountsMove(before, after, row, gone, come) ==
    \A s \in {"SCHEDULED", "COMPLETED", "CANCELLED", "PENDING"} :
        /\ count_by_status(after, s) = count_by_status(before, s) + ClaimDelta(s, gone, come)
        /\ \A d \in {"DOC-1", "DOC-2"} :
              count_by_doctor(after, d, <<s>>) = count_by_doctor(before, d, <<s>>)
                  + (IF d = row.doctor_id THEN ClaimDelta(s, gone, come) ELSE 0)
        /\ \A p \in {"PAT-1", "PAT-2"} :
              count_by_patient(after, p, <<s>>) = count_by_patient(before, p, <<s>>)
                  + (IF p = row.patient_id THEN ClaimDelta(s, gone, come) ELSE 0)

\* C25: count_by_status(s) is the number of stored rows with status s, so the
\* four status counts sum to the total of list; count_by_doctor(d, s) and
\* count_by_patient(p, s) are the numbers of stored rows of that doctor or
\* patient with status s (of every status when none is asked for); a
\* successful create adds one to the counts of SCHEDULED, a successful
\* update_status moves one from the old status to the new, a successful delete
\* takes one from the counts of the deleted row's status.
C25_CountsMatchStore ==
    [][/\ last'.op = "count_by_status"
             => last'.ret[1] = Cardinality({ i \in 1 .. Len(store') :
                                   store'[i].status = last'.args.query[1].status[1] })
       /\ last'.op = "count_by_doctor"
             => last'.ret[1] = Cardinality(ClaimCounted(store', "doctor_id",
                                   last'.args.query[1].doctor_id,
                                   last'.args.query[1].status))
       /\ last'.op = "count_by_patient"
             => last'.ret[1] = Cardinality(ClaimCounted(store', "patient_id",
                                   last'.args.query[1].patient_id,
                                   last'.args.query[1].status))
       /\ count_by_status(store', "SCHEDULED") + count_by_status(store', "COMPLETED")
             + count_by_status(store', "CANCELLED") + count_by_status(store', "PENDING")
          = get_all_appointments(store', 0, 1)[2]
       /\ (last'.op = "create" /\ last'.result = "ok")
             => ClaimCountsMove(store, store', last'.ret[1], "none", "SCHEDULED")
       /\ (last'.op = "update_status" /\ last'.result = "ok")
             => \A i \in Stored(store, last') :
                   ClaimCountsMove(store, store', store[i], store[i].status,
                                   last'.args.target)
       /\ (last'.op = "delete" /\ last'.result = "ok")
             => \A i \in Stored(store, last') :
                   ClaimCountsMove(store, store', store[i], store[i].status, "none")]_vars

\* DOC-1 has a PENDING and a SCHEDULED row and its PENDING rows are counted
C25_Witness ==
    /\ last.op = "count_by_doctor"
    /\ last.args.query[1] = [doctor_id |-> "DOC-1", status |-> <<"PENDING">>]
    /\ last.ret = <<1>>
    /\ Len(store) = 2
    /\ store[1].doctor_id = "DOC-1" /\ store[1].status = "PENDING"
    /\ store[2].doctor_id = "DOC-1" /\ store[2].status = "SCHEDULED"

\* the 18 half-hour slots 09:00-09:30 through 17:30-18:00, in minutes
ClaimSlots == [k \in 1 .. 18 |-> <<540 + 30 * (k - 1), 570 + 30 * (k - 1)>>]

\* the slots returned, in minutes
ClaimSlotTimes(slots) ==
    [k \in 1 .. Len(slots) |->
        <<slots[k].start_time[1] * 60 + slots[k].start_time[2],
          slots[k].end_time[1] * 60 + slots[k].end_time[2]>>]

\* the stored rows of the doctor and date asked for that are active
ClaimActiveOf(rows, q) ==
    { i \in 1 .. Len(rows) :
        /\ rows[i].doctor_id = q.doctor_id
        /\ rows[i].appointment_date = q.appointment_date
        /\ ClaimActive(rows[i]) }

\* C26: available_slots for a doctor and date with no active booking returns
\* the 18 slots 09:00-09:30 through 17:30-18:00, and with one active booking
\* 10:00-10:30 returns those 18 slots minus exactly the 10:00-10:30 slot.
C26_EighteenCandidateSlots ==
    (last.op = "available_slots" /\ last.detail = "ok")
        => LET active == ClaimActiveOf(store, last.args.query[1])
               times == ClaimSlotTimes(last.ret[1])
           IN  /\ active = {} => times = ClaimSlots
               /\ (/\ Cardinality(active) = 1
                   /\ \A i \in active : /\ store[i].appointment_start_time = 600
                                        /\ store[i].appointment_end_time = 630)
                     => times = SelectSeq(ClaimSlots, LAMBDA slot : slot # <<600, 630>>)

\* C27: available_slots(doctor, date) returns, in ascending start-time order
\* and without duplicates, exactly the candidate slots (the 18 half hours from
\* 09:00 to 18:00) that have no half-open overlap with an active stored row of
\* that doctor and date.
C27_AvailableSlotsAreFreeCandidates ==
    (last.op = "available_slots" /\ last.detail = "ok")
        => LET active == ClaimActiveOf(store, last.args.query[1])
               times == ClaimSlotTimes(last.ret[1])
               free == { k \in 1 .. 18 :
                           \A i \in active :
                               ~ ClaimOverlap(ClaimSlots[k][1], ClaimSlots[k][2],
                                              store[i].appointment_start_time,
                                              store[i].appointment_end_time) }
           IN  /\ \A a, b \in 1 .. Len(times) : a < b => times[a][1] < times[b][1]
               /\ { times[a] : a \in 1 .. Len(times) } = { ClaimSlots[k] : k \in free }

\* C28: when fetching the booked rows fails inside available_slots, the
\* operation returns an empty sequence and no error reaches the caller; no
\* call of available_slots, failed or not, changes the table.
C28_SlotsFailSoft ==
    [][(last'.op = "available_slots")
          => /\ store' = store
             /\ (last'.detail = "db_error")
                   => /\ last'.result = "ok"
                      /\ last'.ret = << <<>> >>]_vars

\* the select failed for a doctor and date that have free slots
C28_Witness ==
    /\ last.op = "available_slots"
    /\ last.detail = "db_error"
    /\ last.args.query[1] = [doctor_id |-> "DOC-1", appointment_date |-> 1]
    /\ last.ret = << <<>> >>
    /\ Len(store) = 2
    /\ store[2].appointment_start_time = 640

\* the client-visible outcome of each error kind of the service
ClaimOutcome ==
    [AppointmentNotFoundError |-> 404, AppointmentConflictError |-> 409,
     ValidationError |-> 422, BusinessRuleViolationError |-> 400]

\* C29: on create, get, update_status, update_fields and delete, each of the
\* four error kinds NotFound, Conflict, ValidationFailure and
\* BusinessRuleViolation raised by the service is answered with the outcome of
\* its kind, the four outcomes are pairwise distinct, and none is the generic
\* internal failure (500) or a success.
C29_ErrorKindsTranslatedOneToOne ==
    /\ \A a, b \in DOMAIN ClaimOutcome : a # b => ClaimOutcome[a] # ClaimOutcome[b]
    /\ (last.op \in {"create", "get", "update_status", "update", "delete"}
        /\ last.result \in DOMAIN ClaimOutcome)
          => /\ http_status(last) = ClaimOutcome[last.result]
             /\ http_status(last) # 500
             /\ http_status(last) \notin {200, 201}

\* update_fields refused for a conflict
C29_Witness ==
    /\ last.op = "update"
    /\ last.result = "AppointmentConflictError"
    /\ http_status(last) = 409
    /\ Len(store) = 2

\* C30: a create that exhausts the identifier-collision retries is reported as
\* the Conflict error kind, the kind of a double-booking conflict.
C30_RetryExhaustionIsConflict ==
    (last.op = "create" /\ last.detail = "id_exhausted")
        => /\ last.result = "AppointmentConflictError"
           /\ http_status(last) = 409

\* C31: from the step that stores a row until the step that deletes it, no
\* operation changes the row's booking id or its created_at.
C31_BookingIdAndCreatedAtImmutable ==
    [][\A i \in 1 .. Len(store), j \in 1 .. Len(store') :
          store[i].id = store'[j].id
              => /\ store'[j].appointment_id = store[i].appointment_id
                 /\ store'[j].created_at = store[i].created_at]_vars

\* the second row stored was given to DOC-2 by update_fields
C31_Witness ==
    /\ last.op = "update"
    /\ last.result = "ok"
    /\ last.args.patch[1].doctor_id = <<"DOC-2">>
    /\ Len(store) = 2
    /\ store[2].appointment_id = last.args.bid[1]
    /\ store[2].appointment_id = <<2025, 2>>
    /\ store[2].created_at = <<"utcnow", 2>>
    /\ store[2].updated_at # <<>>
    /\ store[2].doctor_id = "DOC-2"

\* C32: every successful create appends exactly one row, with status
\* SCHEDULED and the doctor, patient, date and interval of the request, returns
\* that row, and leaves the rows stored before as they were; a get of the
\* returned booking id that follows at once returns the same row.
C32_CreateStoresRequestedRow ==
    [][/\ (last'.op = "create" /\ last'.result = "ok")
             => LET r == last'.args.req[1]
                    row == last'.ret[1]
                IN  /\ Len(store') = Len(store) + 1
                    /\ \A i \in 1 .. Len(store) : store'[i] = store[i]
                    /\ store'[Len(store')] = row
                    /\ row.status = "SCHEDULED"
                    /\ row.doctor_id = r.doctor_id
                    /\ row.patient_id = r.patient_id
                    /\ row.appointment_date = r.appointment_date
                    /\ row.appointment_start_time = r.appointment_start_time
                    /\ row.appointment_end_time = r.appointment_end_time
                    /\ \A i \in 1 .. Len(store) : store[i].id # row.id
       /\ (/\ last.op = "create" /\ last.result = "ok"
           /\ last'.op = "get"
           /\ last'.args.bid[1] = last.ret[1].appointment_id)
             => /\ last'.result = "ok"
                /\ last'.ret = last.ret]_vars

\* a get of the booking id that the create before it returned
C32_Witness ==
    /\ last.op = "get"
    /\ last.result = "ok"
    /\ Len(store) = 2
    /\ last.ret = <<store[2]>>
    /\ store[2].doctor_id = "DOC-2"
    /\ store[2].status = "SCHEDULED"
    /\ store[2].updated_at = <<>>
    /\ store[1].updated_at = <<>>

\* C33: a create fails with the conflict error only when a SCHEDULED or
\* PENDING row of the request's doctor and date is stored and overlaps the
\* requested interval; rows that are CANCELLED or COMPLETED, or of another
\* doctor or date, never make it fail.
C33_OnlyActiveSameCalendarBlocks ==
    (last.op = "create" /\ last.result = "AppointmentConflictError")
        => ClaimClashes(store, last.args.req[1]) # {}

\* the interval of a cancelled booking is booked again for the same doctor and
\* date
C33_Witness ==
    /\ last.op = "create"
    /\ last.result = "ok"
    /\ Len(store) = 2
    /\ store[1].status = "CANCELLED"
    /\ store[1].doctor_id = store[2].doctor_id
    /\ store[1].appointment_date = store[2].appointment_date
    /\ store[1].appointment_start_time = store[2].appointment_start_time
    /\ store[1].appointment_end_time = store[2].appointment_end_time
    /\ store[2].status = "SCHEDULED"

\* C37: in every state reached from the empty table through the service
\* operations, every stored row has status SCHEDULED, COMPLETED or CANCELLED,
\* never PENDING.
C37_NoPendingFromEmptyStore ==
    \A i \in 1 .. Len(store) : store[i].status \in {"SCHEDULED", "COMPLETED", "CANCELLED"}

\* update_status to PENDING was asked for a cancelled row and refused
C37_Witness ==
    /\ last.op = "update_status"
    /\ last.args.target = "PENDING"
    /\ last.result = "ValidationError"
    /\ Stored(store, last) # {}
    /\ \A i \in Stored(store, last) : store[i].status = "CANCELLED"

\* C39: an update_fields whose payload sets none of date, start_time and
\* end_time never fails with the conflict error and, on a stored booking id,
\* succeeds, even when it hands the row to a doctor who has an active booking
\* that overlaps it on the row's date.
C39_NoTimeFieldNoConflictCheck ==
    [][(/\ last'.op = "update"
        /\ last'.args.patch[1].appointment_date = <<>>
        /\ last'.args.patch[1].appointment_start_time = <<>>
        /\ last'.args.patch[1].appointment_end_time = <<>>)
          => /\ last'.result # "AppointmentConflictError"
             /\ Stored(store, last') # {} => last'.result = "ok"]_vars

\* a row was handed to DOC-2, who has an active booking at the same time
C39_Witness ==
    /\ last.op = "update"
    /\ last.result = "ok"
    /\ last.args.patch[1] =
           [doctor_id |-> <<"DOC-2">>, patient_id |-> <<>>, appointment_date |-> <<>>,
            appointment_start_time |-> <<>>, appointment_end_time |-> <<>>]
    /\ Len(store) = 2
    /\ store[1].doctor_id = "DOC-2" /\ store[2].doctor_id = "DOC-2"
    /\ store[1].status = "SCHEDULED" /\ store[2].status = "SCHEDULED"
    /\ store[1].appointment_date = store[2].appointment_date
    /\ store[1].appointment_start_time = store[2].appointment_start_time
    /\ store[1].appointment_end_time = store[2].appointment_end_time
    /\ store[1].updated_at # <<>>

\* C35: when the count query of the id generator fails, a create that passes
\* its checks starts from the id APT-{year}-{n:04d} with n = timestamp modulo
\* 10000, in 0..9999; when that id is free the row is stored under it, and when
\* it is taken the insert is retried: the create stores the row under another
\* free id or ends with the exhaustion of the retries, never otherwise.
C35_FallbackIdStillRetried ==
    [][(/\ last'.op = "create"
        /\ last'.args.query # <<>>
        /\ last'.args.query[1].count_error
        /\ last'.detail \in {"ok", "id_exhausted"})
          => LET t == last'.args.query[1].timestamp
                 n == t - 10000 * (t \div 10000)
                 taken == \E i \in 1 .. Len(store) : store[i].appointment_id = <<2025, n>>
             IN  /\ n \in 0 .. 9999
                 /\ ~ taken
                       => /\ last'.result = "ok"
                          /\ LET text == appointment_id_text(last'.ret[1].appointment_id)
                             IN  /\ SubSeq(text, 1, 9)
                                      = <<"A", "P", "T", "-", "2", "0", "2", "5", "-">>
                                 /\ Len(text) = 13
                                 /\ ClaimNumber(SubSeq(text, 10, 13)) = n
                 /\ taken
                       => \/ /\ last'.result = "ok"
                             /\ last'.ret[1].appointment_id # <<2025, n>>
                             /\ \A i \in 1 .. Len(store) :
                                   store[i].appointment_id # last'.ret[1].appointment_id
                             /\ store' = Append(store, last'.ret[1])
                          \/ /\ last'.result = "ValidationError"
                             /\ last'.detail = "id_exhausted"
                             /\ store' = store]_vars

\* the clock gave 0001, APT-2025-0001 was stored, and the row went in under
\* another id
C35_Witness ==
    /\ last.op = "create"
    /\ last.result = "ok"
    /\ last.args.query # <<>>
    /\ last.args.query[1].count_error
    /\ last.args.query[1].timestamp = 1762400001
    /\ Len(store) = 2
    /\ store[1].appointment_id = <<2025, 1>>
    /\ store[2].appointment_id = <<2025, 2>>
    /\ store[2].created_at = <<"utcnow", 2>>

\* C40: when the conflict query raises, the detector answers "no conflict": a
\* create within opening hours and of sufficient length is not refused with
\* the conflict error, even when an active row of the doctor and date overlaps
\* it, and stores its row unless the id retries run out; an update_fields of a
\* stored booking id succeeds and stores the provided fields.
C40_ConflictDetectorFailsOpen ==
    [][(/\ last'.args.query # <<>>
        /\ last'.args.query[1].conflict_error)
          => /\ (last'.op = "create"
                 /\ ClaimInHours(last'.args.req[1])
                 /\ ClaimLength(last'.args.req[1]) >= 15)
                   => \/ /\ last'.result = "ok"
                         /\ store' = Append(store, last'.ret[1])
                      \/ /\ last'.detail = "id_exhausted"
                         /\ store' = store
             /\ (last'.op = "update" /\ Stored(store, last') # {})
                   => /\ last'.result = "ok"
                      /\ \A j \in Stored(store', last') :
                            /\ last'.ret[1] = store'[j]
                            /\ store'[j].appointment_start_time
                                 = last'.args.patch[1].appointment_start_time[1]
                            /\ store'[j].appointment_end_time
                                 = last'.args.patch[1].appointment_end_time[1]]_vars

\* the conflict query raised and an overlapping booking of DOC-1 was stored
C40_Witness ==
    /\ last.op = "create"
    /\ last.result = "ok"
    /\ last.args.query # <<>>
    /\ last.args.query[1].conflict_error
    /\ ~ last.args.query[1].count_error
    /\ Len(store) = 2
    /\ store[1].doctor_id = "DOC-1" /\ store[2].doctor_id = "DOC-1"
    /\ store[1].status = "SCHEDULED"
    /\ store[1].appointment_start_time = 600 /\ store[1].appointment_end_time = 630
    /\ store[2].appointment_start_time = 615 /\ store[2].appointment_end_time = 645

\* C38: an update_fields that fails with the conflict error leaves the stored
\* rows exactly as they were before the call (no provided field persisted,
\* updated_at not stamped), and a get of the same booking id that follows it
\* returns the stored row with the date and interval it had, not the patch's.
C38_ConflictingUpdateLeavesRow ==
    [][/\ (last'.op = "update" /\ last'.result = "AppointmentConflictError")
             => /\ store' = store
                /\ \A i \in Stored(store, last') :
                      /\ store'[i].updated_at = store[i].updated_at
                      /\ ClaimResulting(store'[i], Patch(None, None, None, None))
                            = ClaimResulting(store[i], Patch(None, None, None, None))
       /\ (/\ last.op = "update" /\ last.result = "AppointmentConflictError"
           /\ last'.op = "get" /\ last'.args.bid = last.args.bid)
             => /\ last'.result = "ok"
                /\ \A i \in Stored(store, last) :
                      last'.ret[1] = store[i]]_vars

\* an update that would have moved a never-updated row to another interval has
\* just been refused with the conflict error
C38_Witness ==
    /\ last.op = "update" /\ last.result = "AppointmentConflictError"
    /\ \E i \in Stored(store, last) :
          /\ store[i].updated_at = <<>>
          /\ ClaimResulting(store[i], last.args.patch[1])
                # ClaimResulting(store[i], Patch(None, None, None, None))

\* the pairs of rows that are one record before and after a step
ClaimSameRecord(before, after) ==
    { p \in (1 .. Len(before)) \X (1 .. Len(after)) :
        before[p[1]].id = after[p[2]].id }

\* C36: when update_status operations on one record are interleaved, each
\* validated against the status it read, every change of the record's stored
\* status from one committed value to the next is an edge of the transition
\* table, and a record stored as COMPLETED is never overwritten with another
\* status.
C36_StatusChangesOnEdges ==
    [][\A p \in ClaimSameRecord(store, store') :
          /\ store'[p[2]].status # store[p[1]].status
                => <<store[p[1]].status, store'[p[2]].status>> \in ClaimEdges
          /\ store[p[1]].status = "COMPLETED"
                => store'[p[2]].status = "COMPLETED"]_vars

\* C34: each operation commits at most once and nothing follows its commit
\* that can fail: a step changes a stored record only by one whole commit (the
\* new status together with the updated_at stamp), and an operation that ends
\* in an error has committed nothing.
C34_ErrorCommitsNothing ==
    [][/\ \A s \in Workers :
             /\ sessions'[s].commits <= 1
             /\ (sessions'[s].pc = "done" /\ sessions'[s].result # "ok")
                   => sessions'[s].commits = 0
       /\ \A p \in ClaimSameRecord(store, store') :
             store'[p[2]] # store[p[1]]
                => /\ store'[p[2]].updated_at # <<>>
                   /\ \E s \in Workers :
                         /\ sessions'[s].commits = sessions[s].commits + 1
                         /\ store'[p[2]].status = sessions[s].target]_vars

====
